---- MODULE Spec2Model ----
(***************************************************************************)
(* K2DB (src/src/db.ts): a facade over one MongoDB collection.  A document *)
(* is a function from field names to values; the collection is the set of  *)
(* stored documents, each carrying the store-assigned "_id".  Every public *)
(* verb is one action that runs the whole handler, nested calls included.  *)
(***************************************************************************)
EXTENDS Integers, Sequences, FiniteSets, TLC

\* Bounds of the model.
MaxDocs == 2      \* number of ObjectIds the store hands out
MaxTime == 1      \* largest value Date.now() returns

VARIABLES
  docs,        \* the documents stored in the collection
  uuidIndex,   \* TRUE iff a unique index on _uuid exists on the collection
  nextId,      \* next ObjectId the store assigns
  now,         \* last value returned by Date.now()
  last,        \* the call being answered: its arguments, the collection
               \* before it ran, and what reaches the caller
  hist,        \* history: the identity whose delete and then purge succeeded
  calls        \* the calls in flight when callers do not await one another

vars == <<docs, uuidIndex, nextId, now, last, hist, calls>>

----------------------------------------------------------------------------
\* Values the callers and collaborators supply.

UUIDS == {"u1", "u2"}
Owners == {"alice"}

\* Collection names, as sequences of characters.
OrdersName == <<"o">>
SystemName == <<"s", "y", "s", "t", "e", "m", ".", "o">>
DollarName == <<"o", "$">>
NullName == <<"o", "NUL">>
CollectionNames == {OrdersName, SystemName, DollarName, NullName}

EmptyObj == [f \in {} |-> TRUE]

Eq(v) == [op |-> "eq", v |-> v]
Ne(v) == [op |-> "ne", v |-> v]
Gte(v) == [op |-> "gte", v |-> v]

\* Caller data for create / update / updateAll.
CreateData == { ("a" :> 1) @@ ("c" :> 1),
                ("a" :> 1) @@ ("c" :> 1) @@ ("_uuid" :> "forged") @@ ("_owner" :> "mallory")
                  @@ ("_created" :> 9) @@ ("_updated" :> 9),
                ("a" :> 1) @@ ("c" :> 1) @@ ("_deleted" :> TRUE) }
PatchData == { "a" :> 2,
               ("_uuid" :> "u2") @@ ("_owner" :> "mallory") @@ ("_created" :> 0) }
BulkData == { "a" :> 2 }

\* Caller criteria for the bulk verbs and for find.
BulkCriteria == { EmptyObj, "a" :> Gte(2), "_deleted" :> Eq(TRUE) }
FindFilters == { EmptyObj, "a" :> Gte(2), "_deleted" :> Eq(TRUE) }
FindParams == { EmptyObj, "deleted" :> TRUE, "includeDeleted" :> TRUE,
                "filter" :> "all" }
Skips == {0, 1}
Limits == {1, 100}

----------------------------------------------------------------------------
\* Objects.

Has(d, f) == f \in DOMAIN d

\* { ...base, ...over }
Spread(base, over) ==
  [f \in (DOMAIN base) \cup (DOMAIN over) |->
     IF f \in DOMAIN over THEN over[f] ELSE base[f]]

\* const { _id, ...rest } = doc
StripId(d) == [f \in (DOMAIN d) \ {"_id"} |-> d[f]]

----------------------------------------------------------------------------
\* Collection Gatekeeper.

includes(name, ch) == \E i \in 1..Len(name) : name[i] = ch

startsWith(name, prefix) ==
  /\ Len(name) >= Len(prefix)
  /\ SubSeq(name, 1, Len(prefix)) = prefix

SystemPrefix == <<"s", "y", "s", "t", "e", "m", ".">>

\* TRUE iff validateCollectionName returns without throwing.
validateCollectionName(collectionName) ==
  /\ ~includes(collectionName, "NUL")
  /\ ~startsWith(collectionName, SystemPrefix)
  /\ ~includes(collectionName, "$")

\* What a call reports.
Result(kind, code, n, ds) ==
  [kind |-> kind, code |-> code, n |-> n, docs |-> ds, id |-> ""]

InvalidName == Result("BAD_REQUEST", "sys_mdb_invalid_collection_name", 0, <<>>)

Throws(res) == res.kind # "ok"

\* getCollection: the validation error is a K2Error and is rethrown as is.
getCollection(collectionName) ==
  IF validateCollectionName(collectionName) THEN Result("ok", "", 0, <<>>)
  ELSE InvalidName

----------------------------------------------------------------------------
\* Store primitives (the MongoDB collection the handlers call).

Matches(d, criteria) ==
  \A f \in DOMAIN criteria :
    LET c == criteria[f] IN
      CASE c.op = "eq" -> Has(d, f) /\ d[f] = c.v
        [] c.op = "ne" -> ~(Has(d, f) /\ d[f] = c.v)
        [] c.op = "gte" -> Has(d, f) /\ d[f] >= c.v

Matching(coll, criteria) == {d \in coll : Matches(d, criteria)}

countDocuments(coll, criteria) == Cardinality(Matching(coll, criteria))

\* No two documents of coll share a _uuid.
UniqueUuids(coll) ==
  \A d1, d2 \in coll : d1["_uuid"] = d2["_uuid"] => d1["_id"] = d2["_id"]

\* A store call either returns (threw = FALSE) or rejects (threw = TRUE).
StoreOutcome(threw, coll, n) == [threw |-> threw, coll |-> coll, n |-> n]

\* collection.insertOne(document): the store assigns _id; with the unique
\* index a second document with the same _uuid is a duplicate-key error.
insertOne(coll, idx, document, id) ==
  IF idx /\ \E d \in coll : d["_uuid"] = document["_uuid"]
  THEN StoreOutcome(TRUE, coll, 0)
  ELSE StoreOutcome(FALSE, coll \cup {Spread(document, "_id" :> id)}, 1)

\* The update document handed to updateMany: { $set: values } or bare values.
UpdateOperation(values, replace) == [atomic |-> ~replace, values |-> values]

\* coll after $set of values on the documents of the set P.
ApplySet(coll, P, values) == (coll \ P) \cup {Spread(d, values) : d \in P}

\* collection.updateMany(criteria, updateOperation).  An update document
\* without atomic operators is rejected before anything is written.  n is
\* modifiedCount: the matched documents the update actually changed.  With
\* the unique index, a write that would duplicate a _uuid rejects and the
\* documents written before it stay written.
updateMany(coll, idx, criteria, updateOperation) ==
  IF ~updateOperation.atomic THEN {StoreOutcome(TRUE, coll, 0)}
  ELSE
    LET M == Matching(coll, criteria)
        values == updateOperation.values
        all == ApplySet(coll, M, values)
    IN IF ~idx \/ UniqueUuids(all)
       THEN {StoreOutcome(FALSE, all,
                          Cardinality({d \in M : Spread(d, values) # d}))}
       ELSE {StoreOutcome(TRUE, ApplySet(coll, P, values), 0) :
               P \in {Q \in SUBSET M :
                        /\ Cardinality(Q) <= 1
                        /\ UniqueUuids(ApplySet(coll, Q, values))
                        /\ Q = {} =>
                             \E d \in M : ~UniqueUuids(ApplySet(coll, {d}, values))}}

\* collection.deleteMany(criteria)
deleteMany(coll, criteria) == coll \ Matching(coll, criteria)

\* The orders in which a cursor may deliver a set of documents.
RECURSIVE Orderings(_)
Orderings(S) ==
  IF S = {} THEN {<<>>}
  ELSE UNION {{<<d>> \o rest : rest \in Orderings(S \ {d})} : d \in S}

\* cursor.skip(skip).limit(limit): limit 0 means no limit.
Page(s, skip, limit) ==
  LET from == skip + 1
      to == IF limit = 0 \/ skip + limit > Len(s) THEN Len(s) ELSE skip + limit
  IN SubSeq(s, from, to)

\* A projection keeps the fields marked 1 (and _id unless marked 0) when it
\* marks any field 1, and otherwise drops the fields marked 0.
Project(d, projection) ==
  LET inc == {f \in DOMAIN projection : projection[f] = 1}
      exc == {f \in DOMAIN projection : projection[f] = 0}
      keep == IF inc # {} THEN (inc \cup {"_id"}) \ exc ELSE (DOMAIN d) \ exc
  IN [f \in (DOMAIN d) \cap keep |-> d[f]]

\* collection.findOne(criteria, { projection }): a sequence of 0 or 1 documents.
findOneStore(coll, criteria, projection) ==
  IF Matching(coll, criteria) = {} THEN {<<>>}
  ELSE {<<Project(d, projection)>> : d \in Matching(coll, criteria)}

\* collection.find(criteria, { projection }).skip(skip).limit(limit).toArray()
findStore(coll, criteria, projection, skip, limit) ==
  {Page([i \in 1..Len(s) |-> Project(s[i], projection)], skip, limit) :
     s \in Orderings(Matching(coll, criteria))}

----------------------------------------------------------------------------
\* The handlers of K2DB, as functions of the collection they run against.
\* Each yields the set of outcomes the call can have: what reaches the
\* caller (res) and the collection afterwards (coll).

Outcome(res, coll) == [res |-> res, coll |-> coll]

Ok(n, ds) == Result("ok", "", n, ds)
OkId(id) == [Result("ok", "", 0, <<>>) EXCEPT !.id = id]
Err(kind, code) == Result(kind, code, 0, <<>>)

StripAll(s) == [i \in 1..Len(s) |-> StripId(s[i])]

findOne(collectionName, coll, criteria, fields) ==
  IF Throws(getCollection(collectionName))
    THEN {Outcome(getCollection(collectionName), coll)}
  ELSE LET projection == [f \in fields |-> 1]
       IN {Outcome(Ok(Len(item), StripAll(item)), coll) :
             item \in findOneStore(coll, criteria, projection)}

get(collectionName, coll, uuid) ==
  {IF o.res.kind = "ok" /\ o.res.n = 0
     THEN Outcome(Err("SYSTEM_ERROR", "sys_mdb_get"), coll)
     ELSE o :
   o \in findOne(collectionName, coll, "_uuid" :> Eq(uuid), {})}

\* find criteria with the deletedOnly mode lost.
FindCriteriaNoDeletedMode(filter, params) ==
  IF Has(params, "includeDeleted") /\ params["includeDeleted"] THEN filter
  ELSE Spread(filter, "_deleted" :> Ne(TRUE))

\* The criteria find hands to the store.
FindCriteria(filter, params) ==
  IF Has(params, "includeDeleted") /\ params["includeDeleted"] THEN filter
  ELSE IF Has(params, "deleted") /\ params["deleted"] = TRUE
    THEN Spread(filter, "_deleted" :> Eq(TRUE))
    ELSE Spread(filter, "_deleted" :> Ne(TRUE))

\* The projection find hands to the store.
FindProjection(params) ==
  LET base == IF Has(params, "filter") /\ params["filter"] = "all"
                THEN EmptyObj ELSE "_id" :> 0
  IN IF Has(params, "exclude")
       THEN Spread(base, [f \in params["exclude"] |-> 0])
       ELSE base

find(collectionName, coll, filter, params, skip, limit) ==
  IF Throws(getCollection(collectionName))
    THEN {Outcome(getCollection(collectionName), coll)}
  ELSE {Outcome(Ok(Len(data), StripAll(data)), coll) :
          data \in findStore(coll, FindCriteria(filter, params),
                             FindProjection(params), skip, limit)}

\* updateAll criteria that always force the soft-delete exclusion.
UpdateCriteriaAlwaysLive(criteria) == Spread(criteria, "_deleted" :> Ne(TRUE))

\* The criteria updateAll hands to the store.
UpdateCriteria(criteria) ==
  IF Has(criteria, "_deleted") THEN criteria
  ELSE Spread(criteria, "_deleted" :> Ne(TRUE))

updateAll(collectionName, coll, idx, criteria, values, replace, t) ==
  IF Throws(getCollection(collectionName))
    THEN {Outcome(getCollection(collectionName), coll)}
  ELSE LET stamped == Spread(values, "_updated" :> t)
       IN {IF r.threw
             THEN Outcome(Err("SYSTEM_ERROR", "sys_mdb_update1"), r.coll)
             ELSE Outcome(Ok(r.n, <<>>), r.coll) :
           r \in updateMany(coll, idx, UpdateCriteria(criteria),
                            UpdateOperation(stamped, replace))}

\* update that patches without scoping the write to the identity.
updateUnscoped(collectionName, coll, idx, id, data, replace, t) ==
  IF Throws(getCollection(collectionName))
    THEN {Outcome(getCollection(collectionName), coll)}
  ELSE {IF o.res.kind # "ok" THEN o
        ELSE IF o.res.n = 1 THEN Outcome(Ok(1, <<>>), o.coll)
        ELSE IF o.res.n = 0
          THEN Outcome(Err("NOT_FOUND", "sys_mdb_update_not_found"), o.coll)
          ELSE Outcome(Err("SYSTEM_ERROR", "sys_mdb_update_multiple_found"), o.coll) :
        o \in updateAll(collectionName, coll, idx, EmptyObj, data, replace, t)}

update(collectionName, coll, idx, id, data, replace, t) ==
  IF Throws(getCollection(collectionName))
    THEN {Outcome(getCollection(collectionName), coll)}
  ELSE {IF o.res.kind # "ok" THEN o
        ELSE IF o.res.n = 1 THEN Outcome(Ok(1, <<>>), o.coll)
        ELSE IF o.res.n = 0
          THEN Outcome(Err("NOT_FOUND", "sys_mdb_update_not_found"), o.coll)
          ELSE Outcome(Err("SYSTEM_ERROR", "sys_mdb_update_multiple_found"), o.coll) :
        o \in updateAll(collectionName, coll, idx, "_uuid" :> Eq(id), data, replace, t)}

\* deleteAll criteria that exclude only the documents flagged false.
modifiedCriteriaNotFalse(criteria) == Spread(criteria, "_deleted" :> Ne(FALSE))

\* deleteAll: { ...criteria, _deleted: { $ne: true } }
modifiedCriteria(criteria) == Spread(criteria, "_deleted" :> Ne(TRUE))

\* deleteAll that erases the matching documents instead of flagging them.
deleteAllErasing(collectionName, coll, idx, criteria, t) ==
  IF Throws(getCollection(collectionName))
    THEN {Outcome(getCollection(collectionName), coll)}
  ELSE LET modified == modifiedCriteria(criteria)
       IN {Outcome(Ok(countDocuments(coll, modified), <<>>),
                   deleteMany(coll, modified))}

deleteAll(collectionName, coll, idx, criteria, t) ==
  IF Throws(getCollection(collectionName))
    THEN {Outcome(getCollection(collectionName), coll)}
  ELSE LET modified == modifiedCriteria(criteria)
       IN {IF o.res.kind # "ok"
             THEN Outcome(Err("SYSTEM_ERROR", "sys_mdb_deleteall_update"), o.coll)
             ELSE o :
           o \in updateAll(collectionName, coll, idx, modified,
                           "_deleted" :> TRUE, FALSE, t)}

\* delete: every throw inside its try block, its own NOT_FOUND included, is
\* caught and re-thrown as sys_mdb_remove_upd.
delete(collectionName, coll, idx, id, t) ==
  {IF o.res.kind = "ok" /\ o.res.n = 1 THEN Outcome(Ok(1, <<>>), o.coll)
   ELSE Outcome(Err("SYSTEM_ERROR", "sys_mdb_remove_upd"), o.coll) :
   o \in deleteAll(collectionName, coll, idx, "_uuid" :> Eq(id), t)}

\* purge that looks the document up by identity alone.
purgeAnyState(collectionName, coll, id) ==
  IF Throws(getCollection(collectionName))
    THEN {Outcome(getCollection(collectionName), coll)}
  ELSE {IF item = <<>>
          THEN Outcome(Err("SYSTEM_ERROR", "sys_mdb_gcol_pg2"), coll)
          ELSE Outcome(OkId(id), deleteMany(coll, "_uuid" :> Eq(id))) :
        item \in findOneStore(coll, "_uuid" :> Eq(id), EmptyObj)}

purge(collectionName, coll, id) ==
  IF Throws(getCollection(collectionName))
    THEN {Outcome(getCollection(collectionName), coll)}
  ELSE {IF item = <<>>
          THEN Outcome(Err("SYSTEM_ERROR", "sys_mdb_gcol_pg2"), coll)
          ELSE Outcome(OkId(id), deleteMany(coll, "_uuid" :> Eq(id))) :
        item \in findOneStore(coll, ("_uuid" :> Eq(id)) @@ ("_deleted" :> Eq(TRUE)),
                              EmptyObj)}

\* restore that takes the criteria as the caller gave them.
restoreUnforced(collectionName, coll, idx, criteria) ==
  IF Throws(getCollection(collectionName))
    THEN {Outcome(getCollection(collectionName), coll)}
  ELSE {IF r.threw
          THEN Outcome(Err("SYSTEM_ERROR", "sys_mdb_pres"), r.coll)
          ELSE Outcome(Ok(r.n, <<>>), r.coll) :
        r \in updateMany(coll, idx, criteria,
                         UpdateOperation("_deleted" :> FALSE, FALSE))}

restore(collectionName, coll, idx, criteria) ==
  IF Throws(getCollection(collectionName))
    THEN {Outcome(getCollection(collectionName), coll)}
  ELSE {IF r.threw
          THEN Outcome(Err("SYSTEM_ERROR", "sys_mdb_pres"), r.coll)
          ELSE Outcome(Ok(r.n, <<>>), r.coll) :
        r \in updateMany(coll, idx, Spread(criteria, "_deleted" :> Eq(TRUE)),
                         UpdateOperation("_deleted" :> FALSE, FALSE))}

count(collectionName, coll, criteria) ==
  IF Throws(getCollection(collectionName))
    THEN {Outcome(getCollection(collectionName), coll)}
  ELSE {Outcome(Ok(countDocuments(coll, criteria), <<>>), coll)}

\* create that lets the fields of data win over the system fields.
createDataWins(collectionName, coll, idx, owner, data, timestamp, newUuid, id) ==
  IF owner = "" THEN {Outcome(Err("BAD_REQUEST", "sys_mdb_crv1"), coll)}
  ELSE IF Throws(getCollection(collectionName))
    THEN {Outcome(getCollection(collectionName), coll)}
  ELSE LET document == Spread(("_created" :> timestamp)
                              @@ ("_updated" :> timestamp)
                              @@ ("_owner" :> owner)
                              @@ ("_uuid" :> newUuid), data)
           r == insertOne(coll, idx, document, id)
       IN IF r.threw
            THEN {Outcome(Err("ALREADY_EXISTS", "sys_mdb_crv3"), r.coll)}
            ELSE {Outcome(OkId(document["_uuid"]), r.coll)}

create(collectionName, coll, idx, owner, data, timestamp, newUuid, id) ==
  IF owner = "" THEN {Outcome(Err("BAD_REQUEST", "sys_mdb_crv1"), coll)}
  ELSE IF Throws(getCollection(collectionName))
    THEN {Outcome(getCollection(collectionName), coll)}
  ELSE LET document == Spread(data, ("_created" :> timestamp)
                                    @@ ("_updated" :> timestamp)
                                    @@ ("_owner" :> owner)
                                    @@ ("_uuid" :> newUuid))
           r == insertOne(coll, idx, document, id)
       IN IF r.threw
            THEN {Outcome(Err("ALREADY_EXISTS", "sys_mdb_crv3"), r.coll)}
            ELSE {Outcome(OkId(document["_uuid"]), r.coll)}

\* drop that reaches the store before the name is validated.
dropUnchecked(collectionName, coll, idx) ==
  {Outcome(IF Throws(getCollection(collectionName))
             THEN getCollection(collectionName) ELSE Ok(0, <<>>), {})}
  \cup (IF coll = {} /\ ~idx
          THEN {Outcome(Err("SYSTEM_ERROR", "sys_mdb_drop"), coll)}
          ELSE {})

\* drop: dropping a collection that does not exist succeeds or fails with
\* the store's "ns not found", depending on the server.
drop(collectionName, coll, idx) ==
  IF Throws(getCollection(collectionName))
    THEN {Outcome(getCollection(collectionName), coll)}
  ELSE {Outcome(Ok(0, <<>>), {})}
       \cup (IF coll = {} /\ ~idx
               THEN {Outcome(Err("SYSTEM_ERROR", "sys_mdb_drop"), coll)}
               ELSE {})

\* createIndex(collectionName, { _uuid: 1 }, { unique: true }): TRUE iff
\* the store can build the index.
createIndex(collectionName, coll) ==
  IF Throws(getCollection(collectionName)) THEN getCollection(collectionName)
  ELSE IF UniqueUuids(coll) THEN Ok(0, <<>>)
  ELSE Err("SYSTEM_ERROR", "sys_mdb_idx")

----------------------------------------------------------------------------
\* Aggregation.

Stage(stage, value) == [stage |-> stage, value |-> value]

IsMatch(st) == st.stage = "$match"

\* Shaping that appends the soft-delete guard instead of leading with it.
ShapePipelineGuardLast(criteria, skip, limit) ==
  LET guarded == criteria \o <<Stage("$match", "_deleted" :> Ne(TRUE))>>
      skipped == IF skip > 0 THEN guarded \o <<Stage("$skip", skip)>> ELSE guarded
  IN IF limit > 0 THEN skipped \o <<Stage("$limit", limit)>> ELSE skipped

\* The pipeline after aggregate has shaped it (the caller's array is
\* changed in place).
ShapePipeline(criteria, skip, limit) ==
  LET guarded ==
        IF IsMatch(criteria[1])
          THEN <<Stage("$match", Spread(criteria[1].value, "_deleted" :> Ne(TRUE)))>>
               \o Tail(criteria)
          ELSE <<Stage("$match", "_deleted" :> Ne(TRUE))>> \o criteria
      skipped == IF skip > 0 THEN guarded \o <<Stage("$skip", skip)>> ELSE guarded
  IN IF limit > 0 THEN skipped \o <<Stage("$limit", limit)>> ELSE skipped

\* sanitiseCriteria: a string under the key $exists becomes a boolean; every
\* other value comes back as it is.
sanitiseCriteria(st) ==
  IF IsMatch(st)
    THEN Stage("$match",
               [k \in DOMAIN st.value |->
                  IF k = "$exists" THEN st.value[k] = "true" ELSE st.value[k]])
    ELSE st

\* One stage of collection.aggregate(pipeline) on a sequence of documents.
RunStage(st, s) ==
  CASE st.stage = "$match" -> SelectSeq(s, LAMBDA d : Matches(d, st.value))
    [] st.stage = "$skip" -> SubSeq(s, st.value + 1, Len(s))
    [] st.stage = "$limit" ->
         SubSeq(s, 1, IF st.value < Len(s) THEN st.value ELSE Len(s))

RECURSIVE RunPipeline(_, _)
RunPipeline(pipeline, s) ==
  IF pipeline = <<>> THEN s
  ELSE RunPipeline(Tail(pipeline), RunStage(Head(pipeline), s))

\* The caller's pipeline array once aggregate has returned or thrown: the
\* empty check throws before the array is touched, everything else after.
aggregateArray(criteria, skip, limit) ==
  IF Len(criteria) = 0 THEN criteria ELSE ShapePipeline(criteria, skip, limit)

\* The pipeline handed to collection.aggregate; <<>> when the call throws
\* before it reaches the store.
aggregateSent(collectionName, criteria, skip, limit) ==
  IF Len(criteria) = 0 \/ Throws(getCollection(collectionName)) THEN <<>>
  ELSE LET shaped == ShapePipeline(criteria, skip, limit)
       IN [i \in 1..Len(shaped) |-> sanitiseCriteria(shaped[i])]

aggregate(collectionName, coll, criteria, skip, limit) ==
  IF Len(criteria) = 0 THEN {Outcome(Err("SYSTEM_ERROR", "sys_mdb_ag_empty"), coll)}
  ELSE IF Throws(getCollection(collectionName))
    THEN {Outcome(getCollection(collectionName), coll)}
  ELSE LET sanitizedCriteria == aggregateSent(collectionName, criteria, skip, limit)
       IN {LET data == RunPipeline(sanitizedCriteria, s)
           IN Outcome(Ok(Len(data), data), coll) :
           s \in Orderings(coll)}

----------------------------------------------------------------------------
\* The state machine: one action per public verb.

Pipelines == { <<>>,
               <<Stage("$match", "a" :> Gte(2))>>,
               <<Stage("$limit", 1)>> }
AggLimits == {0, 100}

NoCall ==
  [op |-> "init", name |-> <<>>, id |-> "", owner |-> "", replace |-> FALSE,
   data |-> EmptyObj, criteria |-> EmptyObj, params |-> EmptyObj,
   skip |-> 0, limit |-> 0, pipeline |-> <<>>, array |-> <<>>, sent |-> <<>>,
   before |-> {}, res |-> Ok(0, <<>>)]

\* History of one identity: "deleted" once delete(id) has succeeded,
\* "purged" once purge(id) has succeeded after that, and for as long as only
\* get, find, restore, update and delete are called afterwards.
NoHist == [id |-> "", phase |-> "none"]

LaterVerbs == {"get", "find", "restore", "update", "delete"}

Record(h, call, res) ==
  IF call.op = "delete" /\ res.kind = "ok" /\ h.phase # "purged"
    THEN [id |-> call.id, phase |-> "deleted"]
  ELSE IF call.op = "purge" /\ res.kind = "ok" /\ h.phase = "deleted" /\ h.id = call.id
    THEN [id |-> call.id, phase |-> "purged"]
  ELSE IF h.phase = "purged" /\ call.op \notin LaterVerbs THEN NoHist
  ELSE h

\* Callers that do not await one another.
Procs == {1, 2}

IdleCall ==
  [op |-> "idle", pc |-> "idle", t |-> 0, res |-> Ok(0, <<>>),
   overlap |-> FALSE, sawLive |-> FALSE, erasedLive |-> FALSE]

NoCalls == [p \in Procs |-> IdleCall]

\* The caller awaits each call before it issues the next one.
Idle == last.op = "init"

Init ==
  /\ docs = {}
  /\ uuidIndex = FALSE
  /\ nextId = 1
  /\ now = 0
  /\ last = NoCall
  /\ hist = NoHist
  /\ calls = NoCalls

\* The call returns o; Date.now() returned t if the handler got that far.
Return(call, o, stamped, t) ==
  /\ docs' = o.coll
  /\ hist' = Record(hist, call, o.res)
  /\ calls' = calls
  /\ last' = [call EXCEPT !.res = o.res, !.before = docs]
  /\ now' = IF stamped THEN t ELSE now

Create(collectionName, owner, data) ==
  /\ Idle
  /\ nextId <= MaxDocs
  /\ \E t \in now..MaxTime, newUuid \in UUIDS :
       \E o \in create(collectionName, docs, uuidIndex, owner, data, t, newUuid, nextId) :
         /\ Return([NoCall EXCEPT !.op = "create", !.name = collectionName,
                                  !.owner = owner, !.data = data],
                   o, owner # "" /\ validateCollectionName(collectionName), t)
         /\ nextId' = IF o.res.kind = "ok" THEN nextId + 1 ELSE nextId
  /\ UNCHANGED uuidIndex

Get(collectionName, uuid) ==
  /\ Idle
  /\ \E o \in get(collectionName, docs, uuid) :
       Return([NoCall EXCEPT !.op = "get", !.name = collectionName, !.id = uuid],
              o, FALSE, now)
  /\ UNCHANGED <<uuidIndex, nextId>>

FindOne(collectionName, criteria) ==
  /\ Idle
  /\ \E o \in findOne(collectionName, docs, criteria, {}) :
       Return([NoCall EXCEPT !.op = "findOne", !.name = collectionName,
                             !.criteria = criteria],
              o, FALSE, now)
  /\ UNCHANGED <<uuidIndex, nextId>>

Find(collectionName, filter, params, skip, limit) ==
  /\ Idle
  /\ \E o \in find(collectionName, docs, filter, params, skip, limit) :
       Return([NoCall EXCEPT !.op = "find", !.name = collectionName,
                             !.criteria = filter, !.params = params,
                             !.skip = skip, !.limit = limit],
              o, FALSE, now)
  /\ UNCHANGED <<uuidIndex, nextId>>

Aggregate(collectionName, criteria, skip, limit) ==
  /\ Idle
  /\ \E o \in aggregate(collectionName, docs, criteria, skip, limit) :
       Return([NoCall EXCEPT !.op = "aggregate", !.name = collectionName,
                             !.pipeline = criteria, !.skip = skip, !.limit = limit,
                             !.array = aggregateArray(criteria, skip, limit),
                             !.sent = aggregateSent(collectionName, criteria,
                                                    skip, limit)],
              o, FALSE, now)
  /\ UNCHANGED <<uuidIndex, nextId>>

Count(collectionName, criteria) ==
  /\ Idle
  /\ \E o \in count(collectionName, docs, criteria) :
       Return([NoCall EXCEPT !.op = "count", !.name = collectionName,
                             !.criteria = criteria],
              o, FALSE, now)
  /\ UNCHANGED <<uuidIndex, nextId>>

UpdateAll(collectionName, criteria, values) ==
  /\ Idle
  /\ \E t \in now..MaxTime :
       \E o \in updateAll(collectionName, docs, uuidIndex, criteria, values, FALSE, t) :
         Return([NoCall EXCEPT !.op = "updateAll", !.name = collectionName,
                               !.criteria = criteria, !.data = values],
                o, validateCollectionName(collectionName), t)
  /\ UNCHANGED <<uuidIndex, nextId>>

Update(collectionName, id, data, replace) ==
  /\ Idle
  /\ \E t \in now..MaxTime :
       \E o \in update(collectionName, docs, uuidIndex, id, data, replace, t) :
         Return([NoCall EXCEPT !.op = "update", !.name = collectionName,
                               !.id = id, !.data = data, !.replace = replace],
                o, validateCollectionName(collectionName), t)
  /\ UNCHANGED <<uuidIndex, nextId>>

DeleteAll(collectionName, criteria) ==
  /\ Idle
  /\ \E t \in now..MaxTime :
       \E o \in deleteAll(collectionName, docs, uuidIndex, criteria, t) :
         Return([NoCall EXCEPT !.op = "deleteAll", !.name = collectionName,
                               !.criteria = criteria],
                o, validateCollectionName(collectionName), t)
  /\ UNCHANGED <<uuidIndex, nextId>>

Delete(collectionName, id) ==
  /\ Idle
  /\ \E t \in now..MaxTime :
       \E o \in delete(collectionName, docs, uuidIndex, id, t) :
         Return([NoCall EXCEPT !.op = "delete", !.name = collectionName, !.id = id],
                o, validateCollectionName(collectionName), t)
  /\ UNCHANGED <<uuidIndex, nextId>>

Restore(collectionName, criteria) ==
  /\ Idle
  /\ \E o \in restore(collectionName, docs, uuidIndex, criteria) :
       Return([NoCall EXCEPT !.op = "restore", !.name = collectionName,
                             !.criteria = criteria],
              o, FALSE, now)
  /\ UNCHANGED <<uuidIndex, nextId>>

Purge(collectionName, id) ==
  /\ Idle
  /\ \E o \in purge(collectionName, docs, id) :
       Return([NoCall EXCEPT !.op = "purge", !.name = collectionName, !.id = id],
              o, FALSE, now)
  /\ UNCHANGED <<uuidIndex, nextId>>

Drop(collectionName) ==
  /\ Idle
  /\ \E o \in drop(collectionName, docs, uuidIndex) :
       /\ Return([NoCall EXCEPT !.op = "drop", !.name = collectionName],
                 o, FALSE, now)
       /\ uuidIndex' = IF o.res.kind = "ok" THEN FALSE ELSE uuidIndex
  /\ UNCHANGED nextId

CreateIndex(collectionName) ==
  /\ Idle
  /\ LET res == createIndex(collectionName, docs)
     IN /\ Return([NoCall EXCEPT !.op = "createIndex", !.name = collectionName],
                  Outcome(res, docs), FALSE, now)
        /\ uuidIndex' = IF res.kind = "ok" THEN TRUE ELSE uuidIndex
  /\ UNCHANGED nextId

\* The result has reached the caller, who goes on to the next call.
Continue ==
  /\ ~Idle
  /\ last' = NoCall
  /\ UNCHANGED <<docs, uuidIndex, nextId, now, hist, calls>>

\* The arguments tried with collection name c: all of S with the valid name,
\* one representative with a name the Gatekeeper rejects.
Pick(c, S) == IF c = OrdersName THEN S ELSE {CHOOSE x \in S : TRUE}

Next ==
  \/ \E c \in CollectionNames :
       \E owner \in Pick(c, Owners) \cup {""}, data \in Pick(c, CreateData) :
         Create(c, owner, data)
  \/ \E c \in CollectionNames : \E id \in Pick(c, UUIDS) : Get(c, id)
  \/ \E c \in CollectionNames : \E criteria \in Pick(c, FindFilters) :
       FindOne(c, criteria)
  \/ \E c \in CollectionNames :
       \E filter \in Pick(c, FindFilters), params \in Pick(c, FindParams),
          skip \in Pick(c, Skips), limit \in Pick(c, Limits) :
         Find(c, filter, params, skip, limit)
  \/ \E c \in CollectionNames :
       \E p \in Pick(c, Pipelines \ {<<>>}) \cup {<<>>}, skip \in Pick(c, Skips), limit \in Pick(c, AggLimits) :
         Aggregate(c, p, skip, limit)
  \/ \E c \in CollectionNames : \E criteria \in Pick(c, FindFilters) :
       Count(c, criteria)
  \/ \E c \in CollectionNames :
       \E criteria \in Pick(c, BulkCriteria), values \in Pick(c, BulkData) :
         UpdateAll(c, criteria, values)
  \/ \E c \in CollectionNames :
       \E id \in Pick(c, UUIDS), data \in Pick(c, PatchData), replace \in Pick(c, BOOLEAN) :
         Update(c, id, data, replace)
  \/ \E c \in CollectionNames : \E criteria \in Pick(c, BulkCriteria) :
       DeleteAll(c, criteria)
  \/ \E c \in CollectionNames : \E id \in Pick(c, UUIDS) : Delete(c, id)
  \/ \E c \in CollectionNames : \E criteria \in Pick(c, BulkCriteria) :
       Restore(c, criteria)
  \/ \E c \in CollectionNames : \E id \in Pick(c, UUIDS) : Purge(c, id)
  \/ \E c \in CollectionNames : Drop(c)
  \/ \E c \in CollectionNames : CreateIndex(c)
  \/ Continue

Spec == Init /\ [][Next]_vars

----------------------------------------------------------------------------
\* Concurrent callers.  K2DB holds no lock and awaits the store between the
\* steps of a verb, so the store calls of two verbs in flight interleave;
\* each store call is atomic.  Both callers work on one identity.

ConcId == "u1"
ConcVerbs == {"purge", "restore", "delete", "update", "updateAll"}

\* The collection the concurrent callers start on: one created document.
ConcStore ==
  (CHOOSE o \in create(OrdersName, {}, FALSE, "alice", ("a" :> 1) @@ ("c" :> 1),
                       0, ConcId, 1) : TRUE).coll

InitConc ==
  /\ docs = ConcStore
  /\ uuidIndex = FALSE
  /\ nextId = 2
  /\ now = 0
  /\ last = NoCall
  /\ hist = NoHist
  /\ calls = NoCalls

InFlight(call) == call.op # "idle" /\ call.pc # "done"

LiveNow(id) == Matching(docs, ("_uuid" :> Eq(id)) @@ ("_deleted" :> Ne(TRUE)))

\* The first store call or clock read of each verb.
FirstStep(op) ==
  CASE op = "purge" -> "find"
    [] op = "restore" -> "write"
    [] op = "delete" -> "count"
    [] OTHER -> "stamp"

\* A caller issues a verb on ConcId.
Begin(p, op) ==
  /\ calls[p].op = "idle"
  /\ calls' = [q \in Procs |->
                 IF q = p
                   THEN [IdleCall EXCEPT !.op = op, !.pc = FirstStep(op),
                           !.overlap = \E o \in Procs \ {p} : InFlight(calls[o]),
                           !.sawLive = LiveNow(ConcId) # {}]
                 ELSE IF InFlight(calls[q]) THEN [calls[q] EXCEPT !.overlap = TRUE]
                 ELSE calls[q]]
  /\ UNCHANGED <<docs, uuidIndex, nextId, now, last, hist>>

\* purge: findOne({ _uuid: id, _deleted: true })
PurgeFind(p) ==
  /\ calls[p].op = "purge" /\ calls[p].pc = "find"
  /\ \E item \in findOneStore(docs, ("_uuid" :> Eq(ConcId)) @@ ("_deleted" :> Eq(TRUE)),
                               EmptyObj) :
       calls' = [calls EXCEPT ![p] =
                   IF item = <<>>
                     THEN [@ EXCEPT !.pc = "done",
                                    !.res = Err("SYSTEM_ERROR", "sys_mdb_gcol_pg2")]
                     ELSE [@ EXCEPT !.pc = "erase"]]
  /\ UNCHANGED <<docs, uuidIndex, nextId, now, last, hist>>

\* purge: deleteMany({ _uuid: id })
PurgeErase(p) ==
  /\ calls[p].op = "purge" /\ calls[p].pc = "erase"
  /\ docs' = deleteMany(docs, "_uuid" :> Eq(ConcId))
  /\ calls' = [calls EXCEPT ![p] =
                 [@ EXCEPT !.pc = "done", !.res = OkId(ConcId),
                           !.erasedLive = LiveNow(ConcId) # {}]]
  /\ UNCHANGED <<uuidIndex, nextId, now, last, hist>>

\* deleteAll: countDocuments(criteria), whose result is not used.
DeleteCount(p) ==
  /\ calls[p].op = "delete" /\ calls[p].pc = "count"
  /\ countDocuments(docs, "_uuid" :> Eq(ConcId)) >= 0
  /\ calls' = [calls EXCEPT ![p] = [@ EXCEPT !.pc = "stamp"]]
  /\ UNCHANGED <<docs, uuidIndex, nextId, now, last, hist>>

\* updateAll: values._updated = Date.now()
Stamp(p) ==
  /\ calls[p].pc = "stamp"
  /\ \E t \in now..MaxTime :
       /\ now' = t
       /\ calls' = [calls EXCEPT ![p] = [@ EXCEPT !.pc = "write", !.t = t]]
  /\ UNCHANGED <<docs, uuidIndex, nextId, last, hist>>

\* What the rest of the verb does once the store runs its write: the
\* handler with the timestamp taken before.
Written(op, t) ==
  CASE op = "restore" -> restore(OrdersName, docs, uuidIndex, "_uuid" :> Eq(ConcId))
    [] op = "delete" -> delete(OrdersName, docs, uuidIndex, ConcId, t)
    [] op = "update" -> update(OrdersName, docs, uuidIndex, ConcId, "a" :> 2, FALSE, t)
    [] op = "updateAll" ->
         updateAll(OrdersName, docs, uuidIndex, EmptyObj, "a" :> 2, FALSE, t)

\* The updateMany of restore, delete, update and updateAll.
Write(p) ==
  /\ calls[p].pc = "write"
  /\ \E o \in Written(calls[p].op, calls[p].t) :
       /\ docs' = o.coll
       /\ calls' = [calls EXCEPT ![p] = [@ EXCEPT !.pc = "done", !.res = o.res]]
  /\ UNCHANGED <<uuidIndex, nextId, now, last, hist>>

\* The result has reached the caller.
Finish(p) ==
  /\ calls[p].pc = "done"
  /\ calls' = [calls EXCEPT ![p] = IdleCall]
  /\ UNCHANGED <<docs, uuidIndex, nextId, now, last, hist>>

NextConc ==
  \/ \E p \in Procs : \E op \in ConcVerbs : Begin(p, op)
  \/ \E p \in Procs : PurgeFind(p)
  \/ \E p \in Procs : PurgeErase(p)
  \/ \E p \in Procs : DeleteCount(p)
  \/ \E p \in Procs : Stamp(p)
  \/ \E p \in Procs : Write(p)
  \/ \E p \in Procs : Finish(p)

SpecConc == InitConc /\ [][NextConc]_vars

----------------------------------------------------------------------------
\* Properties.  last.before is the collection the call ran against and docs
\* the collection it left.

IsDeleted(d) == Has(d, "_deleted") /\ d["_deleted"] = TRUE
IsLive(d) == ~IsDeleted(d)

ValidName == validateCollectionName(last.name)

\* The stored documents the call changed.
Modified == {d \in last.before : d \notin docs}

\* The document of docs with the storage identity of d.
After(d) == CHOOSE e \in docs : e["_id"] = d["_id"]
Kept(d) == \E e \in docs : e["_id"] = d["_id"]

Returned == {last.res.docs[i] : i \in 1..Len(last.res.docs)}

SystemFields == {"_id", "_uuid", "_owner", "_created", "_updated", "_deleted"}

\* C1: purge succeeds exactly when a document with that _uuid is flagged
\* _deleted = true. It then erases the documents of that _uuid and returns
\* the id; otherwise it fails with SYSTEM_ERROR (sys_mdb_gcol_pg2) and the
\* collection is unchanged.
C1_PurgeOnlySoftDeleted ==
  (last.op = "purge" /\ ValidName) =>
    LET target == {d \in last.before : d["_uuid"] = last.id}
    IN IF \E d \in target : IsDeleted(d)
         THEN /\ last.res.kind = "ok"
              /\ last.res.id = last.id
              /\ docs = last.before \ target
         ELSE /\ last.res.kind = "SYSTEM_ERROR"
              /\ last.res.code = "sys_mdb_gcol_pg2"
              /\ docs = last.before

C1_Witness ==
  /\ last.op = "purge"
  /\ last.res.kind = "ok"
  /\ \E d \in last.before : d["_uuid"] = last.id /\ IsDeleted(d) /\ d \notin docs
  /\ \E d \in docs : IsLive(d)

C3_EnvelopeImmutable ==
  last.op \in {"update", "updateAll", "delete", "deleteAll"} =>
    \A d \in last.before :
      /\ Kept(d)
      /\ After(d)["_uuid"] = d["_uuid"]
      /\ After(d)["_owner"] = d["_owner"]
      /\ After(d)["_created"] = d["_created"]

\* C4: a successful mutating call leaves every document it modified with a
\* strictly greater _updated.
C4_UpdatedAdvances ==
  (/\ last.op \in {"update", "updateAll", "delete", "deleteAll", "restore"}
   /\ last.res.kind = "ok") =>
    \A d \in Modified : Kept(d) /\ After(d)["_updated"] > d["_updated"]

\* The documents find is to return for the visibility mode of params.
Visible(filter, params) ==
  {d \in docs :
     /\ Matches(d, filter)
     /\ IF Has(params, "includeDeleted") THEN TRUE
        ELSE IF Has(params, "deleted") THEN IsDeleted(d)
        ELSE IsLive(d)}

Min(a, b) == IF a < b THEN a ELSE b

\* C5: for a filter that does not name _deleted, find returns the matching
\* documents of the visibility mode: live ones by default, soft-deleted ones
\* with params.deleted, both with params.includeDeleted; all of them when
\* they fit the page, and never more than limit.
C5_FindVisibility ==
  (last.op = "find" /\ ValidName /\ ~Has(last.criteria, "_deleted")) =>
    LET vis == Visible(last.criteria, last.params)
        n == Cardinality(vis)
        rest == IF n > last.skip THEN n - last.skip ELSE 0
    IN /\ last.res.kind = "ok"
       /\ docs = last.before
       /\ Returned \subseteq {StripId(d) : d \in vis}
       /\ Len(last.res.docs) = Min(rest, last.limit)
       /\ (last.skip = 0 /\ n <= last.limit) => Returned = {StripId(d) : d \in vis}

C5_Witness ==
  /\ last.op = "find"
  /\ last.criteria = EmptyObj
  /\ last.params = EmptyObj
  /\ last.skip = 0
  /\ \E d \in docs : IsDeleted(d)
  /\ \E d \in docs : IsLive(d)
  /\ Len(last.res.docs) = 1
  /\ IsLive(last.res.docs[1])

\* C6: with a filter that names _deleted and no visibility option, find
\* returns the documents matching the caller's filter as given.
C6_ExplicitDeletedRespected ==
  (/\ last.op = "find" /\ ValidName
   /\ Has(last.criteria, "_deleted") /\ last.params = EmptyObj
   /\ last.skip = 0 /\ Cardinality(Matching(docs, last.criteria)) <= last.limit) =>
    Returned = {StripId(d) : d \in Matching(docs, last.criteria)}

\* C7: get never returns a soft-deleted document: on an identity whose
\* documents are all soft-deleted it fails as on a missing identity.
C7_GetHidesDeleted ==
  (last.op = "get" /\ ValidName) =>
    /\ \A d \in Returned : IsLive(d)
    /\ (\A d \in docs : d["_uuid"] = last.id => IsDeleted(d)) =>
         (last.res.kind = "SYSTEM_ERROR" /\ last.res.code = "sys_mdb_get")

\* C8: update reports by the number of documents it modified: 0 is
\* NOT_FOUND with nothing changed, 1 is {updated: 1}, more is SYSTEM_ERROR.
C8_ExactlyOneMatch ==
  (last.op = "update" /\ ValidName) =>
    LET n == Cardinality(Modified)
    IN /\ n = 0 => (last.res.kind = "NOT_FOUND" /\ docs = last.before)
       /\ n = 1 => (last.res.kind = "ok" /\ last.res.n = 1)
       /\ n > 1 => last.res.kind = "SYSTEM_ERROR"

\* C9: delete on an identity no document carries fails with NOT_FOUND; on
\* exactly one live document it flags it and returns {deleted: 1}; on more
\* than one it fails with SYSTEM_ERROR.
C9_DeleteExactlyOne ==
  (last.op = "delete" /\ ValidName) =>
    LET live == {d \in last.before : d["_uuid"] = last.id /\ IsLive(d)}
    IN /\ (\A d \in last.before : d["_uuid"] # last.id) =>
            last.res.kind = "NOT_FOUND"
       /\ Cardinality(live) = 1 =>
            /\ last.res.kind = "ok" /\ last.res.n = 1
            /\ \A d \in live : Kept(d) /\ IsDeleted(After(d))
       /\ Cardinality(live) > 1 => last.res.kind = "SYSTEM_ERROR"

\* C10: update with replace = true on a live document returns {updated: 1}
\* and leaves the document with the fields of data plus its own
\* underscore fields, _updated advanced and every other field gone.
C10_ReplaceKeepsSystemFields ==
  (/\ last.op = "update" /\ last.replace /\ ValidName
   /\ Cardinality({d \in last.before : d["_uuid"] = last.id}) = 1) =>
    \A d \in {e \in last.before : e["_uuid"] = last.id /\ IsLive(e)} :
      /\ last.res.kind = "ok" /\ last.res.n = 1
      /\ Kept(d)
      /\ DOMAIN After(d) = (DOMAIN last.data) \cup ((DOMAIN d) \cap SystemFields)
      /\ \A f \in ((DOMAIN d) \cap SystemFields) \ {"_updated"} : After(d)[f] = d[f]
      /\ \A f \in (DOMAIN last.data) \ SystemFields : After(d)[f] = last.data[f]
      /\ After(d)["_updated"] >= d["_updated"]

\* C11: update with replace = false changes, on the live documents carrying
\* the identity, only the keys of data and _updated; every other field of
\* them and every other document of the collection is as before.  When it
\* returns {updated: 1} the keys of data hold the values of data.
C11_PatchFrame ==
  (last.op = "update" /\ ~last.replace /\ ValidName) =>
    /\ Cardinality(docs) = Cardinality(last.before)
    /\ \A d \in last.before :
         /\ Kept(d)
         /\ (DOMAIN After(d)) \ ((DOMAIN last.data) \cup {"_updated"})
              = (DOMAIN d) \ ((DOMAIN last.data) \cup {"_updated"})
         /\ \A f \in (DOMAIN d) \ ((DOMAIN last.data) \cup {"_updated"}) :
              After(d)[f] = d[f]
         /\ (d["_uuid"] # last.id \/ IsDeleted(d)) => After(d) = d
         /\ (last.res.kind = "ok" /\ d["_uuid"] = last.id /\ IsLive(d)) =>
              \A f \in DOMAIN last.data : After(d)[f] = last.data[f]

C11_Witness ==
  /\ last.op = "update" /\ ~last.replace
  /\ last.res.kind = "ok"
  /\ last.data = ("a" :> 2)
  /\ \E d \in last.before :
       /\ d["_uuid"] = last.id /\ d["a"] = 1
       /\ After(d)["a"] = 2 /\ After(d)["c"] = 1
       /\ After(d)["_owner"] = d["_owner"]
  /\ \E d \in last.before : d["_uuid"] # last.id /\ IsLive(d) /\ d \in docs

\* C12: deleteAll returns the number of documents that matched the
\* caller's criteria and were live, flags exactly those _deleted = true, and
\* leaves the flag of every other document as it was.
C12_DeleteAllCount ==
  (last.op = "deleteAll" /\ ValidName) =>
    LET hit == {d \in last.before : Matches(d, last.criteria) /\ IsLive(d)}
    IN /\ last.res.kind = "ok"
       /\ last.res.n = Cardinality(hit)
       /\ \A d \in last.before :
            /\ Kept(d)
            /\ d \in hit => IsDeleted(After(d))
            /\ d \notin hit =>
                 /\ Has(After(d), "_deleted") = Has(d, "_deleted")
                 /\ Has(d, "_deleted") => After(d)["_deleted"] = d["_deleted"]

\* C13: deleteAll(collection, criteria) leaves the collection and reports
\* the count that updateAll(collection, criteria, {_deleted: true}) leaves
\* and reports on the same collection at the same time.
C13_DeleteAllIsUpdateAll ==
  (last.op = "deleteAll" /\ ValidName) =>
    Outcome(last.res, docs)
      \in updateAll(last.name, last.before, uuidIndex, last.criteria,
                    "_deleted" :> TRUE, FALSE, now)

\* criteria without the _deleted key, which restore forces.
Unflagged(criteria) == [f \in (DOMAIN criteria) \ {"_deleted"} |-> criteria[f]]

\* C14: restore when every document matching the criteria (the forced
\* _deleted aside) is live returns modified = 0 and leaves the collection
\* as it was; and after any successful restore, the same restore again
\* returns modified = 0 and changes nothing.
C14_RestoreIdempotent ==
  (last.op = "restore" /\ ValidName) =>
    /\ (\A d \in Matching(last.before, Unflagged(last.criteria)) : IsLive(d)) =>
         (last.res.kind = "ok" /\ last.res.n = 0 /\ docs = last.before)
    /\ last.res.kind = "ok" =>
         \A o \in restore(last.name, docs, uuidIndex, last.criteria) :
           o.res.kind = "ok" /\ o.res.n = 0 /\ o.coll = docs

C14_Witness ==
  /\ last.op = "restore"
  /\ last.criteria = EmptyObj
  /\ last.res.kind = "ok" /\ last.res.n = 0
  /\ docs = last.before
  /\ \E d \in docs : Has(d, "_deleted") /\ d["_deleted"] = FALSE
  /\ \E d \in docs : ~Has(d, "_deleted")

\* C15: after delete(collection, id) on an identity a live document D
\* carries, restore(collection, {_uuid: id}) returns modified = 1 and leaves
\* D live with every field other than _deleted and _updated as it was
\* before the delete.
C15_DeleteRestoreRoundTrip ==
  (/\ last.op = "delete" /\ ValidName
   /\ \E D \in last.before : D["_uuid"] = last.id /\ IsLive(D)) =>
    \A o \in restore(last.name, docs, uuidIndex, "_uuid" :> Eq(last.id)) :
      /\ o.res.kind = "ok" /\ o.res.n = 1
      /\ \A D \in {e \in last.before : e["_uuid"] = last.id /\ IsLive(e)} :
           \E R \in o.coll :
             /\ R["_id"] = D["_id"]
             /\ IsLive(R)
             /\ (DOMAIN R) \ {"_deleted"} = (DOMAIN D) \ {"_deleted"}
             /\ \A f \in (DOMAIN D) \ {"_deleted", "_updated"} : R[f] = D[f]

CreateSystemFields == {"_uuid", "_owner", "_created", "_updated"}

\* The documents the call added to the collection.
Added == docs \ last.before

\* C16: a successful create stores exactly one new document; its _uuid is
\* the generated identity the call returns, its _owner the owner argument,
\* its _created and _updated the creation time, its other fields those of
\* data; a value data carries for one of the four fields is not stored.
C16_CreateSystemFieldsWin ==
  (last.op = "create" /\ last.res.kind = "ok") =>
    /\ Cardinality(Added) = 1
    /\ docs = last.before \cup Added
    /\ \A d \in Added :
         /\ d["_uuid"] = last.res.id
         /\ d["_uuid"] \in UUIDS
         /\ d["_owner"] = last.owner
         /\ d["_created"] = now
         /\ d["_updated"] = now
         /\ \A f \in (DOMAIN last.data) \cap CreateSystemFields : d[f] # last.data[f]
         /\ \A f \in (DOMAIN last.data) \ CreateSystemFields : d[f] = last.data[f]
         /\ DOMAIN d = (DOMAIN last.data) \cup CreateSystemFields \cup {"_id"}

C16_Witness ==
  /\ last.op = "create"
  /\ last.res.kind = "ok"
  /\ Has(last.data, "_uuid") /\ Has(last.data, "_owner")
  /\ \E d \in Added : d["_owner"] = "alice" /\ d["_uuid"] = last.res.id
  /\ last.before # {}

\* C17: the document a successful create stores carries no _deleted flag,
\* whatever data is; get on the returned identity can return it and a
\* default find of the whole collection returns it.
C17_BornLive ==
  (last.op = "create" /\ last.res.kind = "ok") =>
    \A d \in Added :
      /\ ~Has(d, "_deleted")
      /\ \E o \in get(last.name, docs, last.res.id) :
           o.res.kind = "ok" /\ o.res.docs = <<StripId(d)>>
      /\ \A o \in find(last.name, docs, EmptyObj, EmptyObj, 0, 100) :
           \E i \in 1..Len(o.res.docs) : o.res.docs[i] = StripId(d)

\* C18: no two stored documents share a _uuid; a create that succeeds
\* returns an identity no document stored before it carries, and a create
\* that fails with ALREADY_EXISTS leaves the collection as it was.
C18_UniqueIdentities ==
  /\ UniqueUuids(docs)
  /\ (last.op = "create" /\ last.res.kind = "ok") =>
       \A e \in last.before : e["_uuid"] # last.res.id
  /\ (last.op = "create" /\ last.res.kind = "ALREADY_EXISTS") => docs = last.before

\* C19: a call of any verb with a collection name the Gatekeeper rejects
\* fails and leaves the collection as it was; with any other name no call
\* fails with the Gatekeeper's error.
C19_GatekeeperFirst ==
  last.op # "init" =>
    /\ ~ValidName => (last.res.kind # "ok" /\ docs = last.before)
    /\ ValidName => last.res.code # "sys_mdb_invalid_collection_name"

C19_Witness ==
  /\ last.op = "drop"
  /\ last.name = SystemName
  /\ last.res.kind = "BAD_REQUEST"
  /\ Cardinality(docs) = 2
  /\ docs = last.before

GatedVerbs ==
  {"create", "get", "findOne", "find", "update", "updateAll", "delete",
   "deleteAll", "restore", "purge", "count", "drop"}

\* C20: with a collection name the Gatekeeper rejects (and the other
\* arguments present), each of create, get, findOne, find, update,
\* updateAll, delete, deleteAll, restore, purge, count and drop fails with
\* BAD_REQUEST and code sys_mdb_invalid_collection_name.
C20_GatekeeperErrorUnchanged ==
  (/\ last.op \in GatedVerbs /\ ~ValidName
   /\ last.op = "create" => last.owner # "") =>
    /\ last.res.kind = "BAD_REQUEST"
    /\ last.res.code = "sys_mdb_invalid_collection_name"

SoftDeleteGuard == "_deleted" :> Ne(TRUE)

\* The stages aggregate appends for skip and limit.
Pagination(skip, limit) ==
  (IF skip > 0 THEN <<Stage("$skip", skip)>> ELSE <<>>)
    \o (IF limit > 0 THEN <<Stage("$limit", limit)>> ELSE <<>>)

\* C21: for a non-empty pipeline, the pipeline handed to the store starts
\* with a $match holding _deleted != true (the caller's leading $match with
\* the guard merged in, or a new stage before the caller's stages), goes on
\* with the caller's remaining stages in order, and ends with $skip iff
\* skip > 0 followed by $limit iff limit > 0.
C21_PipelineShape ==
  (last.op = "aggregate" /\ ValidName /\ last.pipeline # <<>>) =>
    LET p == last.pipeline
        rest == IF IsMatch(p[1]) THEN Tail(p) ELSE p
        first == IF IsMatch(p[1]) THEN Spread(p[1].value, SoftDeleteGuard)
                 ELSE SoftDeleteGuard
    IN /\ IsMatch(last.sent[1])
       /\ Has(last.sent[1].value, "_deleted")
       /\ last.sent[1].value["_deleted"] = Ne(TRUE)
       /\ last.sent = <<Stage("$match", first)>> \o rest
                        \o Pagination(last.skip, last.limit)

C21_Witness ==
  /\ last.op = "aggregate" /\ ValidName
  /\ last.pipeline = <<Stage("$limit", 1)>>
  /\ last.skip = 1 /\ last.limit = 100
  /\ Len(last.sent) = 4
  /\ last.res.kind = "ok"
  /\ docs # {}

\* C22: aggregate with an empty pipeline fails with BAD_REQUEST (the kind
\* of malformed caller input) and hands nothing to the store.
C22_EmptyPipelineInvalidArgument ==
  (last.op = "aggregate" /\ last.pipeline = <<>>) =>
    /\ last.res.kind = "BAD_REQUEST"
    /\ last.sent = <<>>
    /\ docs = last.before

\* C23: updateAll merges values and _updated = the time of the call into
\* every document matching criteria (live ones only when criteria does not
\* name _deleted, the caller's _deleted constraint when it does), leaves
\* every other document as it was, and returns the number of documents it
\* modified; matching nothing it returns {updated: 0} and changes nothing.
C23_UpdateAllMerges ==
  (last.op = "updateAll" /\ ValidName) =>
    LET M == {d \in last.before :
                /\ Matches(d, last.criteria)
                /\ Has(last.criteria, "_deleted") \/ IsLive(d)}
        stamped == Spread(last.data, "_updated" :> now)
    IN /\ last.res.kind = "ok"
       /\ docs = (last.before \ M) \cup {Spread(d, stamped) : d \in M}
       /\ last.res.n = Cardinality(Modified)
       /\ M = {} => (last.res.n = 0 /\ docs = last.before)

C23_Witness ==
  /\ last.op = "updateAll" /\ ValidName
  /\ Has(last.criteria, "_deleted")
  /\ last.res.kind = "ok" /\ last.res.n = 1
  /\ \E d \in last.before :
       IsDeleted(d) /\ d["a"] = 1 /\ After(d)["a"] = 2 /\ IsDeleted(After(d))
  /\ \E d \in last.before : IsLive(d) /\ d \in docs

\* C24: no document that get, findOne, find or aggregate returns has the
\* field _id.
C24_NoStorageIdentityReturned ==
  last.op \in {"get", "findOne", "find", "aggregate"} =>
    \A d \in Returned : ~Has(d, "_id")

\* C25: once delete(I) and then purge(I) have succeeded, and for as long
\* as only get, find, restore, update and delete are called, no stored
\* document carries identity I, no returned document carries it, and
\* get(I) fails.
C25_PurgeIrreversible ==
  hist.phase = "purged" =>
    /\ \A d \in docs : d["_uuid"] # hist.id
    /\ last.op \in {"get", "find"} => \A d \in Returned : d["_uuid"] # hist.id
    /\ (last.op = "get" /\ last.id = hist.id /\ ValidName) => last.res.kind # "ok"

\* C28: update (replace = false) and delete on an identity a soft-deleted
\* document carries fail, update with NOT_FOUND, and leave that document
\* exactly as it was.
C28_SoftDeletedNotWritten ==
  (/\ last.op \in {"update", "delete"} /\ ValidName
   /\ ~last.replace
   /\ \E d \in last.before : d["_uuid"] = last.id /\ IsDeleted(d)) =>
    /\ last.res.kind # "ok"
    /\ last.op = "update" => last.res.kind = "NOT_FOUND"
    /\ \A d \in last.before : (d["_uuid"] = last.id /\ IsDeleted(d)) => d \in docs

\* The results aggregate can return for a pipeline on the collection as it is.
AggregateResults(pipeline) ==
  {o.res.docs : o \in aggregate(last.name, docs, pipeline, last.skip, last.limit)}

\* C29: after a successful aggregate with skip > 0, the caller's pipeline
\* array holds the stages it held before the call, and a second call with
\* that array, the same skip and the same limit hands the same pipeline to
\* the store and returns the same documents.
C29_AggregateRepeatable ==
  (last.op = "aggregate" /\ ValidName /\ last.res.kind = "ok" /\ last.skip > 0) =>
    /\ last.array = last.pipeline
    /\ aggregateSent(last.name, last.array, last.skip, last.limit) = last.sent
    /\ AggregateResults(last.array) = AggregateResults(last.pipeline)

\* C26: in every interleaving of purge, restore, delete and update on one
\* identity, the erase step of purge never removes a document that is live
\* when it runs.
C26_EraseOnlyDeleted ==
  \A p \in Procs : ~calls[p].erasedLive

\* C27: no step of any execution, the interleaved ones included, lowers
\* the _updated of a stored document.
C27_UpdatedMonotonic ==
  [][\A d \in docs : \A e \in docs' :
       e["_id"] = d["_id"] => e["_updated"] >= d["_updated"]]_vars

\* C30: when two delete calls on the same live document have run
\* concurrently, exactly one returned {deleted: 1}, the other failed, and
\* the document is soft-deleted.
C30_ConcurrentDeletes ==
  (\A p \in Procs :
     /\ calls[p].op = "delete" /\ calls[p].pc = "done"
     /\ calls[p].overlap /\ calls[p].sawLive) =>
    /\ Cardinality({p \in Procs : calls[p].res.kind = "ok" /\ calls[p].res.n = 1}) = 1
    /\ Cardinality({p \in Procs : calls[p].res.kind # "ok"}) = 1
    /\ docs # {}
    /\ \A d \in docs : d["_uuid"] = ConcId => IsDeleted(d)

C30_Witness ==
  /\ \A p \in Procs :
       /\ calls[p].op = "delete" /\ calls[p].pc = "done"
       /\ calls[p].overlap /\ calls[p].sawLive
  /\ calls[1].res.kind # "ok"
  /\ calls[2].res.kind = "ok"
  /\ calls[1].t > calls[2].t
  /\ \E d \in docs : IsDeleted(d) /\ d["_updated"] = calls[2].t

====
